---------------------------- MODULE Spec2Model ----------------------------
(***************************************************************************)
(* Verification model of cysbyte/coder-backend-fastapi: the asynchronous   *)
(* task pipeline (services/task_processor.py), the retry wrapper           *)
(* (utils/supabase_client.py) and the refresh-token coordinator            *)
(* (utils/auth.py).                                                        *)
(*                                                                         *)
(* The specifications share the variables:                                 *)
(*   SpecRetry      one call of execute_with_retry;                        *)
(*   SpecAuth       calls of silent_refresh_token on one event loop;       *)
(*   Spec           runs of the four pipeline entry operations;            *)
(*   SpecRounds     Debug rounds of one task that run together;            *)
(*   SpecListeners  one run, with clients connecting and disconnecting;    *)
(*   SpecRequests   requests through validate_access_token and generate.   *)
(* Each leaves the variables of the other components unchanged.            *)
(***************************************************************************)
EXTENDS Integers, Sequences, FiniteSets, TLC

VARIABLES
    retry,            \* the frame of one execute_with_retry call
    now,              \* datetime.now(), in seconds
    _refresh_locks,   \* utils/auth.py: token hash -> (lock, timestamp)
    _cached_tokens,   \* utils/auth.py: token hash -> (result, timestamp)
    locked,           \* the asyncio.Lock objects that are currently held
    caller,           \* the frame of each silent_refresh_token call
    refreshLog,       \* history: per token hash, the refresh_session calls made
    run,              \* the frame of each pipeline run
    published,        \* per run, the statuses passed to manager.send_message
    tasks,            \* table 'tasks': task id -> record
    remaining_credits, \* table 'users': remaining_credits of the user
    rounds,           \* the frame of each of the concurrent Debug rounds
    initial_credits,  \* history: remaining_credits before the first run
    sockets,          \* the WebSocket connections of /ws/{task_id} clients
    request           \* the frame of each HTTP request to POST /generate

vars == <<retry, now, _refresh_locks, _cached_tokens, locked, caller,
          refreshLog, run, published, tasks, remaining_credits, rounds,
          initial_credits, sockets, request>>

authVars == <<now, _refresh_locks, _cached_tokens, locked, caller, refreshLog>>
pipeVars == <<run, published, tasks, remaining_credits, rounds, initial_credits,
              sockets, request>>

None == "None"

Last(s) == s[Len(s)]

Range(s) == {s[i] : i \in 1..Len(s)}

(***************************************************************************)
(* 1. Resilience wrapper: SupabaseRetryClient.execute_with_retry           *)
(***************************************************************************)

\* Largest max_retries and base_delay a client is constructed with.
MaxRetriesBound == 3
MaxBaseDelay == 2

\* The defaults of SupabaseRetryClient.__init__ (the module's retry_client).
DefaultMaxRetries == 3
DefaultBaseDelay == 1

\* The substrings that make an error retryable.
retryable_errors ==
    {"timeout", "connection", "network", "temporary", "service unavailable",
     "gateway timeout", "bad gateway", "too many requests", "rate limit"}

\* str(e) of the errors an operation raises here.  A message is the sequence
\* of the fragments it is made of, so that "sub in msg" is: some fragment,
\* lower-cased, is sub.
ErrorMessages ==
    { <<"Connection", " reset by peer">>,
      <<"read ", "timeout">>,
      <<"429 ", "Too Many Requests">>,
      <<"duplicate", " key value violates unique constraint">>,
      <<"permission", " denied for table tasks">>,
      <<"Record ", "not found">>,
      <<"duplicate", " key value violates unique constraint: Key (name)=(",
        "Network", " Engineer) already exists">> }

\* str.lower() on the fragments that occur.
Lower(frag) ==
    CASE frag = "Connection" -> "connection"
      [] frag = "Network" -> "network"
      [] frag = "Too Many Requests" -> "too many requests"
      [] frag = "Record " -> "record "
      [] OTHER -> frag

\* error_msg = str(e).lower(); any(error in error_msg for error in retryable_errors)
is_retryable(msg) ==
    \E i \in 1..Len(msg) : Lower(msg[i]) \in retryable_errors

\* The semantics of an error, as the database reports it.
HasFatalSemantics(msg) ==
    \E i \in 1..Len(msg) : Lower(msg[i]) \in {"duplicate", "permission", "not found"}

RECURSIVE Pow2(_)
Pow2(n) == IF n = 0 THEN 1 ELSE 2 * Pow2(n - 1)

\* delay = self.base_delay * (2 ** attempt)
DelayLinear(base_delay, attempt) == base_delay * 2 * attempt
Delay(base_delay, attempt) == base_delay * Pow2(attempt)

\* attempt == self.max_retries - 1
IsLastAttemptEarly(attempt, max_retries) == attempt >= max_retries - 2
IsLastAttempt(attempt, max_retries) == attempt = max_retries - 1

\* last_exception = None
NoError == <<>>

\* What an operation that returns hands back; the n-th invocation returns n.
Returned == <<"ok">>

RetryIdle ==
    [max_retries |-> DefaultMaxRetries, base_delay |-> DefaultBaseDelay,
     pc |-> "off", attempt |-> 0, last_exception |-> NoError,
     calls |-> <<>>, sleeps |-> <<>>, outcome |-> None,
     result |-> 0, raised |-> NoError]

RetryInit ==
    \E m \in 0..MaxRetriesBound, b \in 1..MaxBaseDelay :
        retry = [RetryIdle EXCEPT !.max_retries = m, !.base_delay = b,
                                  !.pc = "loop"]

\* One pass of the loop body whose operation returns: return result.
RetryAttemptOk ==
    /\ retry.pc = "loop"
    /\ retry.attempt < retry.max_retries
    /\ retry' = [retry EXCEPT !.calls = Append(@, Returned),
                              !.pc = "done",
                              !.outcome = "returned",
                              !.result = Len(retry.calls) + 1]
    /\ UNCHANGED <<authVars, pipeVars>>

\* One pass of the loop body whose operation raises e.
RetryAttemptFail(e) ==
    /\ retry.pc = "loop"
    /\ retry.attempt < retry.max_retries
    /\ IF ~is_retryable(e) \/ IsLastAttempt(retry.attempt, retry.max_retries)
       THEN retry' = [retry EXCEPT !.calls = Append(@, e),
                                   !.last_exception = e,
                                   !.pc = "done",
                                   !.outcome = "raised",
                                   !.raised = e]
       ELSE retry' = [retry EXCEPT !.calls = Append(@, e),
                                   !.last_exception = e,
                                   !.sleeps = Append(@, Delay(retry.base_delay, retry.attempt)),
                                   !.pc = "sleep"]
    /\ UNCHANGED <<authVars, pipeVars>>

\* await asyncio.sleep(delay) returns; the loop goes to the next attempt.
RetryWake ==
    /\ retry.pc = "sleep"
    /\ retry' = [retry EXCEPT !.attempt = @ + 1, !.pc = "loop"]
    /\ UNCHANGED <<authVars, pipeVars>>

\* The loop ended without returning or raising: raise last_exception.
RetryFallThrough ==
    /\ retry.pc = "loop"
    /\ retry.attempt >= retry.max_retries
    /\ retry' = [retry EXCEPT !.pc = "done", !.outcome = "raised",
                              !.raised = IF retry.last_exception = NoError
                                         THEN <<"TypeError">>
                                         ELSE retry.last_exception]
    /\ UNCHANGED <<authVars, pipeVars>>

RetryNext ==
    \/ RetryAttemptOk
    \/ \E e \in ErrorMessages : RetryAttemptFail(e)
    \/ RetryWake
    \/ RetryFallThrough

(***************************************************************************)
(* 2. Credential refresh coordinator: utils/auth.py                        *)
(***************************************************************************)

\* Number of silent_refresh_token calls and the last clock value considered.
NumCallers == 3
MaxTime == 315
MaxCallSeconds == 15

\* _lock_cleanup_interval, and the cache validity in silent_refresh_token.
LockCleanupInterval == 300
CacheTTL == 30

Callers == 1..NumCallers
Tokens == {"tokA", "tokB"}

\* The instants at which something is observed: the clock advances from one
\* to any later one.  They lie on both sides of the cache validity (30 s) and
\* of the cleanup interval (300 s), and on the limits themselves.
Instants == {t \in {0, 15, 30, 285, 300, 315, 330} : t <= MaxTime}

\* hashlib.sha256(refresh_token.encode()).hexdigest(): one digest per token.
_get_refresh_token_hash(refresh_token) == <<"sha256", refresh_token>>

Hashes == {_get_refresh_token_hash(t) : t \in Tokens}

\* (None, None)
NoneResult == [user |-> None, session |-> 0]

\* (refresh_response.user, session_data) of the refresh made by call c: every
\* successful refresh hands out a new credential pair.
NewResult(c) == [user |-> "user", session |-> c]

\* What supabase.auth.refresh_session does: returns user and session, returns
\* no user, returns no session, raises refresh_token_already_used, raises
\* another error.
RefreshOutcomes == {"ok", "no_user", "no_session", "already_used", "error"}

CallerIdle ==
    [pc |-> "idle", token |-> None, lock |-> 0, start |-> 0,
     invoked |-> FALSE, result |-> NoneResult,
     priorOk |-> NoneResult, priorOkTime |-> -1]

NoHistory == [calls |-> 0, lastOk |-> NoneResult, lastOkTime |-> -1]

AuthIdle ==
    /\ now = 0
    /\ _refresh_locks = <<>>
    /\ _cached_tokens = <<>>
    /\ locked = {}
    /\ caller = [c \in Callers |-> CallerIdle]
    /\ refreshLog = [h \in Hashes |-> NoHistory]

\* current_time - timestamp > timedelta(seconds=_lock_cleanup_interval)
LockExpired(timestamp) == now - timestamp > LockCleanupInterval

\* _cleanup_expired_locks: the keys whose LOCK entry is older than the interval
expired_keys == {key \in DOMAIN _refresh_locks : LockExpired(_refresh_locks[key].timestamp)}

\* A sweep that deleted the lock entries only.
CacheKeptAtCleanup == _cached_tokens

LocksAfterCleanup == [key \in DOMAIN _refresh_locks \ expired_keys |-> _refresh_locks[key]]
CacheAfterCleanup == [key \in DOMAIN _cached_tokens \ expired_keys |-> _cached_tokens[key]]

\* datetime.now() - cached_time < timedelta(seconds=30)
CacheFresh(cache, token_hash) ==
    /\ token_hash \in DOMAIN cache
    /\ now - cache[token_hash].time < CacheTTL

\* supabase.auth.refresh_session is a synchronous call made from a coroutine:
\* while it runs, the event loop runs no other coroutine.
EventLoopAlwaysFree == TRUE
EventLoopFree == \A c \in Callers : caller[c].pc # "refreshing"

\* Calls are numbered in the order in which they begin.
\* silent_refresh_token from its first line to the call of refresh_session:
\* cleanup, the cache check, get-or-create of the lock, its acquisition.
\* Nothing in this stretch suspends: _cleanup_expired_locks awaits nothing
\* and the lock is free (its holder would be blocking the event loop).
SilentRefreshEnter(c, refresh_token) ==
    LET token_hash == _get_refresh_token_hash(refresh_token)
        locks1 == LocksAfterCleanup
        cache1 == CacheAfterCleanup
        locks2 == IF token_hash \in DOMAIN locks1 THEN locks1
                  ELSE (token_hash :> [lock |-> c, timestamp |-> now]) @@ locks1
        lock == locks2[token_hash].lock
        hist == refreshLog[token_hash]
        frame == [caller[c] EXCEPT !.token = refresh_token, !.start = now,
                                   !.priorOk = hist.lastOk,
                                   !.priorOkTime = hist.lastOkTime]
    IN  /\ caller[c].pc = "idle"
        /\ \A b \in Callers : b < c => caller[b].pc # "idle"
        /\ EventLoopFree
        /\ IF CacheFresh(cache1, token_hash)
           THEN /\ caller' = [caller EXCEPT ![c] =
                        [frame EXCEPT !.pc = "done", !.result = cache1[token_hash].result]]
                /\ _refresh_locks' = locks1
                /\ UNCHANGED <<locked, refreshLog>>
           ELSE /\ lock \notin locked
                /\ locked' = locked \cup {lock}
                /\ _refresh_locks' = locks2
                /\ caller' = [caller EXCEPT ![c] =
                        [frame EXCEPT !.pc = "refreshing", !.lock = lock, !.invoked = TRUE]]
                /\ refreshLog' = [refreshLog EXCEPT ![token_hash].calls = @ + 1]
        /\ _cached_tokens' = cache1
        /\ UNCHANGED <<now, retry, pipeVars>>

FailureAnswerAnyEntry(outcome, cache, token_hash) ==
    IF token_hash \in DOMAIN cache THEN cache[token_hash].result ELSE NoneResult

\* What silent_refresh_token returns when the refresh did not succeed: the
\* cached entry after "refresh_token_already_used" with an entry younger than
\* 30 s, (None, None) otherwise.
FailureAnswer(outcome, cache, token_hash) ==
    IF outcome = "already_used" /\ CacheFresh(cache, token_hash)
    THEN cache[token_hash].result
    ELSE NoneResult

\* refresh_session returns or raises, and silent_refresh_token runs to its
\* return, releasing the lock.
RefreshReturn(c, outcome) ==
    LET token_hash == _get_refresh_token_hash(caller[c].token)
        result == NewResult(c)
        answer == IF outcome = "ok" THEN result
                  ELSE FailureAnswer(outcome, _cached_tokens, token_hash)
    IN  /\ caller[c].pc = "refreshing"
        /\ caller' = [caller EXCEPT ![c].pc = "done", ![c].result = answer]
        /\ locked' = locked \ {caller[c].lock}
        /\ IF outcome = "ok"
           THEN /\ _cached_tokens' =
                        (token_hash :> [result |-> result, time |-> now]) @@ _cached_tokens
                /\ refreshLog' = [refreshLog EXCEPT ![token_hash].lastOk = result,
                                                    ![token_hash].lastOkTime = now]
           ELSE UNCHANGED <<_cached_tokens, refreshLog>>
        /\ UNCHANGED <<now, _refresh_locks, retry, pipeVars>>

\* Time passes, also while a refresh_session call is blocking; such a call
\* lasts at most MaxCallSeconds.
Tick(t) ==
    /\ t > now
    /\ EventLoopFree \/ t - now <= MaxCallSeconds
    /\ now' = t
    /\ UNCHANGED <<_refresh_locks, _cached_tokens, locked, caller, refreshLog,
                   retry, pipeVars>>

AuthNext ==
    \/ \E c \in Callers, t \in Tokens : SilentRefreshEnter(c, t)
    \/ \E c \in Callers, o \in RefreshOutcomes : RefreshReturn(c, o)
    \/ \E t \in Instants : Tick(t)

(***************************************************************************)
(* 3. Pipeline engine: services/task_processor.py                          *)
(***************************************************************************)

\* Most images of a request, most runs launched on the task, and the largest
\* starting balance of the user.
MaxImages == 2
MaxLaunches == 2
MaxCredits == 2

\* One task id; its runs (a Generate, then Debug rounds) follow one another.
Runs == {"task1"}

Kinds == {"generate", "debug", "generate_multimodal", "multimodal_debug"}

\* Model names, as the fragments they are made of.
Models == { <<"gpt", "-4o">>, <<"claude", "-3-5-sonnet">>, <<"o4-mini">> }

\* 'gpt' in model / 'claude' in model
InModel(sub, model) == \E i \in 1..Len(model) : model[i] = sub

IsGenerate(kind) == kind \in {"generate", "generate_multimodal"}

NoRecord ==
    [exists |-> FALSE, image_urls |-> <<>>, file_names |-> <<>>, total_images |-> 0,
     ocr_texts |-> FALSE, ai_analysis |-> FALSE,
     conversation |-> <<>>, current_conversation |-> <<>>]

RunIdle ==
    [pc |-> "idle", kind |-> None, model |-> <<>>, nImages |-> 0, launches |-> 0,
     uploads |-> <<>>,
     save |-> None, saveCalls |-> 0, ocr |-> None, ai |-> "unbound",
     conversation |-> <<>>, raised |-> FALSE, providerCalls |-> 0,
     creditsBefore |-> 0, storedBefore |-> <<>>, credits |-> None,
     analysis_text |-> <<>>, problem |-> <<>>, solution |-> <<>>]

\* Most Debug rounds of one task that are under way together.
NumRounds == 2

Rounds == 1..NumRounds

\* The WebSocket connections clients may open on /ws/{task_id}.
Sinks == {"ws1", "ws2"}

SocketNew == [state |-> "new", task |-> None, last |-> None]

NoSockets == [s \in Sinks |-> SocketNew]

\* The HTTP requests considered.
Requests == {"req1", "req2"}

\* No Authorization header (Header(None)).
NoAuthorization == [present |-> FALSE, scheme |-> "", parts |-> <<>>]

\* A Response on which no New-Access-Token / New-Refresh-Token header is set.
NoHeaders == [New_Access_Token |-> <<>>, New_Refresh_Token |-> <<>>]

RequestIdle ==
    [pc |-> "idle", authorization |-> NoAuthorization, access |-> None,
     refreshed |-> NoneResult, token_refreshed |-> FALSE, headers |-> NoHeaders,
     status_code |-> 0, client_headers |-> NoHeaders, launched |-> FALSE]

NoRequests == [q \in Requests |-> RequestIdle]

\* The connections are interchangeable: they are opened in this order.
Earlier(s) == IF s = "ws2" THEN {"ws1"} ELSE {}

RoundIdle ==
    [pc |-> "idle", conversation |-> <<>>, wrote |-> FALSE, completed |-> FALSE,
     decremented |-> FALSE, current_credits |-> 0]

NoRounds == rounds = [k \in Rounds |-> RoundIdle]

PipeInit ==
    /\ run = [r \in Runs |-> RunIdle]
    /\ published = [r \in Runs |-> <<>>]
    /\ sockets = NoSockets
    /\ request = NoRequests
    /\ tasks = [r \in Runs |-> NoRecord]
    /\ remaining_credits \in 1..MaxCredits
    /\ initial_credits = remaining_credits
    /\ NoRounds

\* What manager.send_message(task_id, ...) does with the connections: every
\* connection open under the task id receives the event, and with none open
\* the call does nothing and returns.
Delivered(r, statuses) ==
    [s \in Sinks |->
        IF sockets[s].state = "open" /\ sockets[s].task = r /\ statuses # <<>>
        THEN [sockets[s] EXCEPT !.last = Last(statuses)]
        ELSE sockets[s]]

send_message_needs_sink(r) ==
    \E s \in Sinks : sockets[s].state = "open" /\ sockets[s].task = r

\* Whether manager.send_message(task_id, ...) returns to the operation.
send_message_returns(r) == TRUE

\* manager.send_message(task_id, {"status": s, ...}), for each s of statuses.
Publish(r, statuses) ==
    /\ send_message_returns(r)
    /\ published' = [published EXCEPT ![r] = @ \o statuses]
    /\ sockets' = Delivered(r, statuses)

\* The outcomes of one supabase call made by services/database_service.py:
\* it returns, or raises a transient or a fatal error.
DbOutcomes == {"ok", "transient", "fatal"}

\* The outcomes of a supabase call whose caller only tells success from
\* failure (update_record_status, get_record_by_task_id).
CallOutcomes == {"ok", "failed"}

\* The outcomes of the OCR collaborator: texts, a failure result, an exception.
OcrOutcomes == {"ok", "fail", "raise"}

\* The outcomes of the reasoning provider's HTTP call: status 200, status 200
\* with a body that is not JSON, anything else.
AiOutcomes == {"ok", "badjson", "fail"}

\* validate_files(files, max_files=3) for the generate requests,
\* validate_files(files, max_files=2) for the debug requests.
max_files(kind) == IF IsGenerate(kind) THEN 3 ELSE 2

\* The request handler: check_user_credits, validate_files, then
\* asyncio.create_task(process_*).
Launch(r, kind, model, n) ==
    /\ run[r].pc \in {"idle", "done"}
    /\ n <= max_files(kind)
    /\ run[r].launches < MaxLaunches
    /\ remaining_credits > 0
    /\ run' = [run EXCEPT ![r] =
            [RunIdle EXCEPT !.pc = IF IsGenerate(kind) THEN "start" ELSE "upload",
                            !.kind = kind, !.model = model, !.nImages = n,
                            !.uploads = [i \in 1..n |-> "new"],
                            !.launches = run[r].launches + 1,
                            !.creditsBefore = remaining_credits,
                            !.storedBefore = tasks[r].current_conversation]]
    /\ published' = [published EXCEPT ![r] = <<>>]
    /\ UNCHANGED <<tasks, remaining_credits, initial_credits, retry, authVars, rounds,
                   sockets, request>>

\* process_generate / process_generate_multimodal: the start message.
Start(r) ==
    /\ run[r].pc = "start"
    /\ Publish(r, <<"started">>)
    /\ run' = [run EXCEPT ![r].pc = "upload"]
    /\ UNCHANGED <<tasks, remaining_credits, initial_credits, retry, authVars, rounds,
                   request>>

\* Whether the operation uploads its images one after another (the for loop
\* of process_debug, process_generate_multimodal, process_multimodal_debug)
\* or together (asyncio.gather over upload_single_image in process_generate).
UploadsConcurrently(kind) == kind = "generate"

\* Image i's upload begins: 'uploading', then upload_to_storage is awaited.
\* The coroutines of a gather start in the order of the list.
UploadBegin(r, i) ==
    /\ run[r].pc = "upload"
    /\ i \in 1..run[r].nImages
    /\ run[r].uploads[i] = "new"
    /\ \A j \in 1..(i - 1) :
          IF UploadsConcurrently(run[r].kind)
          THEN run[r].uploads[j] # "new"
          ELSE run[r].uploads[j] \in {"ok", "failed"}
    /\ Publish(r, <<"uploading">>)
    /\ run' = [run EXCEPT ![r].uploads[i] = "sent"]
    /\ UNCHANGED <<tasks, remaining_credits, initial_credits, retry, authVars, rounds,
                   request>>

\* upload_to_storage returns for image i: 'storage error' when it reports
\* failure, and the image is left out of storage_results.
UploadEnd(r, i, ok) ==
    /\ run[r].pc = "upload"
    /\ i \in 1..run[r].nImages
    /\ run[r].uploads[i] = "sent"
    /\ Publish(r, IF ok THEN <<>> ELSE <<"storage error">>)
    /\ run' = [run EXCEPT ![r].uploads[i] = IF ok THEN "ok" ELSE "failed"]
    /\ UNCHANGED <<tasks, remaining_credits, initial_credits, retry, authVars, rounds,
                   request>>

UploadsDone(r) ==
    /\ run[r].pc = "upload"
    /\ \A i \in 1..run[r].nImages : run[r].uploads[i] \in {"ok", "failed"}

SurvivorsAll(uploads, i) == [j \in 1..Len(uploads) |-> j]

RECURSIVE Survivors(_, _)
Survivors(uploads, i) ==
    IF i > Len(uploads) THEN <<>>
    ELSE (IF uploads[i] = "ok" THEN <<i>> ELSE <<>>) \o Survivors(uploads, i + 1)

\* storage_results once the uploads are over: the images that were stored,
\* in the order of the request.
storage_results(r) == Survivors(run[r].uploads, 1)

\* The top-level handler of the run: process_generate and
\* process_generate_multimodal publish 'error'; process_debug and
\* process_multimodal_debug return a result nobody reads.
OnException(kind) == IF IsGenerate(kind) THEN <<"error">> ELSE <<>>

\* process_generate: if not storage_results
GenerateNoUploads(r) ==
    /\ UploadsDone(r)
    /\ run[r].kind = "generate"
    /\ storage_results(r) = <<>>
    /\ Publish(r, <<"error">>)
    /\ run' = [run EXCEPT ![r].pc = "done"]
    /\ UNCHANGED <<tasks, remaining_credits, initial_credits, retry, authVars, rounds,
                   request>>

\* save_image_record: one insert, no retry; any exception becomes
\* {"success": False}.  The insert of an id the table already has fails.
InsertOutcomes(r) == IF tasks[r].exists THEN {"fatal"} ELSE DbOutcomes

\* The images the operation was called with, by their place in the request.
images(r) == [i \in 1..run[r].nImages |-> i]

\* ocr_parse(images, language): the images handed to the OCR stage.
ocr_images(r) == images(r)

InsertedRecord(r) ==
    [NoRecord EXCEPT !.exists = TRUE,
                     !.image_urls = storage_results(r),
                     !.file_names = images(r),
                     !.total_images = Len(images(r))]

\* process_generate: asyncio.gather(ocr_parse, save_image_record) and what
\* follows up to the provider call.
GenerateOcrAndSave(r, ocrOut, saveOut) ==
    /\ UploadsDone(r)
    /\ run[r].kind = "generate"
    /\ storage_results(r) # <<>>
    /\ saveOut \in InsertOutcomes(r)
    /\ tasks' = IF saveOut = "ok" THEN [tasks EXCEPT ![r] = InsertedRecord(r)] ELSE tasks
    /\ LET frame == [run[r] EXCEPT !.save = saveOut, !.saveCalls = @ + 1,
                                   !.ocr = ocrOut]
       IN  CASE ocrOut = "raise" ->
                  /\ Publish(r, OnException("generate"))
                  /\ run' = [run EXCEPT ![r] = [frame EXCEPT !.pc = "done", !.raised = TRUE]]
             [] ocrOut # "raise" /\ saveOut # "ok" ->
                  /\ Publish(r, <<"save error">>)
                  /\ run' = [run EXCEPT ![r] = [frame EXCEPT !.pc = "done"]]
             [] ocrOut = "fail" /\ saveOut = "ok" ->
                  /\ Publish(r, <<"ocr error">>)
                  /\ run' = [run EXCEPT ![r] = [frame EXCEPT !.pc = "done"]]
             [] OTHER ->
                  /\ Publish(r, <<"ocr completed">>)
                  /\ run' = [run EXCEPT ![r] = [frame EXCEPT !.pc = "ai"]]
    /\ UNCHANGED <<remaining_credits, initial_credits, retry, authVars, rounds,
                   request>>

\* save_image_record_for_debug, which services/task_processor.py imports from
\* services/database_service: the insert of the record of a debug round, with
\* the result of save_image_record.
save_image_record_for_debug == DbOutcomes

\* The other three operations: the insert of the record (save_image_record,
\* save_image_record_for_debug) and 'ocr processing'.
SaveRecord(r, saveOut) ==
    /\ UploadsDone(r)
    /\ run[r].kind # "generate"
    /\ saveOut \in IF run[r].kind = "generate_multimodal" THEN InsertOutcomes(r)
                    ELSE save_image_record_for_debug
    /\ tasks' = IF saveOut = "ok" /\ run[r].kind = "generate_multimodal"
                THEN [tasks EXCEPT ![r] = InsertedRecord(r)] ELSE tasks
    /\ LET frame == [run[r] EXCEPT !.save = saveOut, !.saveCalls = @ + 1]
       IN  IF saveOut # "ok"
           THEN /\ Publish(r, <<"save error">>)
                /\ run' = [run EXCEPT ![r] = [frame EXCEPT !.pc = "done"]]
           ELSE /\ Publish(r, <<"ocr processing">>)
                /\ run' = [run EXCEPT ![r] = [frame EXCEPT !.pc = "ocr"]]
    /\ UNCHANGED <<remaining_credits, initial_credits, retry, authVars, rounds,
                   request>>

\* The fields a Generate run writes after the reasoning stage.  A Debug round
\* writing these would overwrite what Generate stored in the task's record.
GenerateTaskUpdate(conversation) ==
    [ai_analysis |-> TRUE, conversation |-> conversation,
     current_conversation |-> conversation]

\* process_debug, process_multimodal_debug: what a Debug round writes to the
\* record of the task, update_record_status(record["task_id"], {...}).
DebugTaskUpdate(conversation) == [current_conversation |-> conversation]

\* update_record_status / update_record_status_for_debug: one update, no
\* retry, its result is not looked at by the callers modelled here.
Updated(record, out, fields) ==
    IF out = "ok" /\ record.exists
    THEN [f \in DOMAIN record |-> IF f \in DOMAIN fields THEN fields[f] ELSE record[f]]
    ELSE record

\* The extraction stage of process_generate_multimodal, process_debug and
\* process_multimodal_debug, up to the provider call.
Ocr(r, ocrOut, dbOut) ==
    /\ run[r].pc = "ocr"
    /\ LET kind == run[r].kind
           skipped == ~IsGenerate(kind) /\ run[r].nImages = 0
           out == IF skipped THEN "ok" ELSE ocrOut
           frame == [run[r] EXCEPT !.ocr = IF skipped THEN None ELSE ocrOut]
       IN  CASE out = "raise" ->
                  /\ Publish(r, OnException(kind))
                  /\ run' = [run EXCEPT ![r] = [frame EXCEPT !.pc = "done", !.raised = TRUE]]
                  /\ UNCHANGED tasks
             [] out = "fail" ->
                  \* process_generate_multimodal publishes 'ocr error'; the
                  \* debug operations return {"success": False} and publish nothing
                  /\ Publish(r, IF IsGenerate(kind) THEN <<"ocr error">> ELSE <<>>)
                  /\ run' = [run EXCEPT ![r] = [frame EXCEPT !.pc = "done"]]
                  /\ UNCHANGED tasks
             [] OTHER ->
                  /\ Publish(r, <<"ocr completed">>)
                  /\ run' = [run EXCEPT ![r] = [frame EXCEPT !.pc = "ai"]]
                  /\ tasks' = IF IsGenerate(kind)
                              THEN [tasks EXCEPT ![r] =
                                       Updated(@, dbOut, [ocr_texts |-> TRUE])]
                              ELSE tasks
    /\ UNCHANGED <<remaining_credits, initial_credits, retry, authVars, rounds,
                   request>>

\* Which provider function the operation calls for the model, and whether
\* the call matches the function's parameters:
\*   generate_with_openai(7 parameters) is called with 7 arguments,
\*   debug_with_openai(7) with 7,
\*   generate_with_openai_multimodal with keywords it has,
\*   generate_with_anthropic(6) with 7 arguments or an unknown keyword,
\*   debug_with_anthropic(6) with 7, debug_with_openai_multimodal(6) with 7.
ProviderOf(kind, model) ==
    IF InModel("gpt", model) THEN "gpt"
    ELSE IF InModel("claude", model) THEN "claude"
    ELSE "none"

CallMatchesSignature(kind, provider) ==
    provider = "gpt" /\ kind # "multimodal_debug"

\* A turn is its role and the round (the launch on the task) that made it.
Turn(role, round) == <<role, round>>

\* The conversation a provider function returns.
\* generate_with_openai and generate_with_openai_multimodal append the
\* assistant's reply; debug_with_openai returns the stored conversation plus
\* the new user turn.
ConversationOf(kind, stored, round) ==
    IF IsGenerate(kind)
    THEN <<Turn("system", round), Turn("user", round), Turn("assistant", round)>>
    ELSE Append(stored, Turn("user", round))

\* The reasoning stage: the provider function, from its call to its return.
Provider(r, aiOut, readOut) ==
    /\ run[r].pc = "ai"
    /\ LET kind == run[r].kind
           provider == ProviderOf(kind, run[r].model)
           \* ocr_text=ocr_result["texts"][0] of process_generate_multimodal
           indexError == kind = "generate_multimodal" /\ provider = "gpt"
                            /\ run[r].nImages = 0
           \* debug_with_openai: get_record_by_task_id
           noRecord == kind = "debug" /\ (readOut # "ok" \/ ~tasks[r].exists)
           \* 'ai completed' is sent before response.json() in debug_with_openai
           \* and generate_with_openai_multimodal, after it in generate_with_openai
           sentBeforeJson == kind # "generate"
       IN  CASE provider = "none" ->
                  \* no branch assigns ai_result
                  /\ UNCHANGED <<published, sockets>>
                  /\ run' = [run EXCEPT ![r].pc = "post_ai"]
             [] provider # "none" /\ (~CallMatchesSignature(kind, provider) \/ indexError) ->
                  \* TypeError / IndexError, to the top-level handler
                  /\ Publish(r, OnException(kind))
                  /\ run' = [run EXCEPT ![r].pc = "done", ![r].raised = TRUE]
             [] OTHER ->
                  /\ Publish(r, <<"ai started">> \o
                        (IF noRecord THEN <<>>
                         ELSE IF aiOut = "ok" \/ (aiOut = "badjson" /\ sentBeforeJson)
                         THEN <<"ai completed">> ELSE <<>>))
                  /\ run' = [run EXCEPT
                        ![r].pc = "post_ai",
                        ![r].providerCalls = IF noRecord THEN @ ELSE @ + 1,
                        ![r].ai = IF ~noRecord /\ aiOut = "ok" THEN "ok" ELSE "fail",
                        ![r].conversation =
                            IF ~noRecord /\ aiOut = "ok"
                            THEN ConversationOf(kind, tasks[r].current_conversation,
                                                run[r].launches)
                            ELSE <<>>]
    /\ UNCHANGED <<tasks, remaining_credits, initial_credits, retry, authVars, rounds,
                   request>>

NextAfterAiNoReturn(ai) == "credits"

\* if not ai_result["success"]: publish 'ai error' and return; otherwise the
\* operation goes on to 'completed' and the credit decrement.
NextAfterAi(ai) == IF ai = "ok" THEN "credits" ELSE "done"

\* From the provider's return to the step before 'completed'.
PostAi(r, dbOut1, dbOut2) ==
    /\ run[r].pc = "post_ai"
    /\ LET kind == run[r].kind
           \* process_generate: await update_ocr_task comes first
           afterOcrUpdate == IF kind = "generate"
                             THEN Updated(tasks[r], dbOut1, [ocr_texts |-> TRUE])
                             ELSE tasks[r]
       IN  CASE run[r].ai = "unbound" ->
                  \* ai_result["success"]: UnboundLocalError
                  /\ Publish(r, OnException(kind))
                  /\ run' = [run EXCEPT ![r].pc = "done", ![r].raised = TRUE]
                  /\ tasks' = [tasks EXCEPT ![r] = afterOcrUpdate]
             [] run[r].ai = "fail" ->
                  /\ Publish(r, <<"ai error">>)
                  /\ run' = [run EXCEPT ![r].pc = NextAfterAi(run[r].ai)]
                  /\ tasks' = [tasks EXCEPT ![r] = afterOcrUpdate]
             [] OTHER ->
                  /\ Publish(r, IF kind \in {"generate", "debug"}
                                THEN <<"ai completed">> ELSE <<>>)
                  /\ run' = [run EXCEPT ![r].pc = NextAfterAi(run[r].ai)]
                  /\ tasks' = [tasks EXCEPT ![r] =
                        IF IsGenerate(kind)
                        THEN Updated(afterOcrUpdate, dbOut2,
                                 [ai_analysis |-> TRUE,
                                  conversation |-> run[r].conversation,
                                  current_conversation |-> run[r].conversation])
                        ELSE Updated(afterOcrUpdate, dbOut2,
                                 DebugTaskUpdate(run[r].conversation))]
    /\ UNCHANGED <<remaining_credits, initial_credits, retry, authVars, rounds,
                   request>>

\* update_user_credits(user_id, -1): read, max(0, current - 1), write; either
\* call may fail, and then {"success": False, "error": ...} has no new_credits.
CreditOutcomes == {"ok", "read_failed", "write_failed"}

NewCreditsUnclamped(current_credits, credit_change) == current_credits + credit_change
NewCreditsKept(current_credits, credit_change) == current_credits

\* new_credits = max(0, current_credits + credit_change)
NewCredits(current_credits, credit_change) ==
    IF current_credits + credit_change < 0 THEN 0 ELSE current_credits + credit_change

\* 'completed', the credit decrement and what the operation does with its result.
Complete(r, creditOut) ==
    /\ run[r].pc = "credits"
    /\ LET new_credits == NewCredits(remaining_credits, -1)
       IN  /\ remaining_credits' = IF creditOut = "ok" THEN new_credits
                                   ELSE remaining_credits
           /\ IF IsGenerate(run[r].kind)
              THEN IF creditOut # "ok"
                   THEN \* 'credits error', then credits_result["new_credits"]: KeyError
                        /\ Publish(r, <<"completed", "credits error">>
                                         \o OnException(run[r].kind))
                        /\ run' = [run EXCEPT ![r].pc = "done", ![r].raised = TRUE,
                                              ![r].credits = creditOut]
                   ELSE /\ Publish(r, IF new_credits <= 0
                                      THEN <<"completed", "no credits">>
                                      ELSE <<"completed">>)
                        /\ run' = [run EXCEPT ![r].pc = "done", ![r].credits = creditOut]
              ELSE \* process_debug: await update_user_credits(user_id, -1)
                   /\ Publish(r, <<"completed">>)
                   /\ run' = [run EXCEPT ![r].pc = "done", ![r].credits = creditOut]
    /\ UNCHANGED <<tasks, initial_credits, retry, authVars, rounds,
                   request>>

PipeNext ==
    \/ \E r \in Runs, k \in Kinds, m \in Models, n \in 0..MaxImages : Launch(r, k, m, n)
    \/ \E r \in Runs : Start(r)
    \/ \E r \in Runs, i \in 1..MaxImages : UploadBegin(r, i)
    \/ \E r \in Runs, i \in 1..MaxImages, ok \in BOOLEAN : UploadEnd(r, i, ok)
    \/ \E r \in Runs : GenerateNoUploads(r)
    \/ \E r \in Runs, o \in OcrOutcomes, d \in DbOutcomes : GenerateOcrAndSave(r, o, d)
    \/ \E r \in Runs, d \in DbOutcomes : SaveRecord(r, d)
    \/ \E r \in Runs, o \in OcrOutcomes, d \in CallOutcomes : Ocr(r, o, d)
    \/ \E r \in Runs, a \in AiOutcomes, d \in CallOutcomes : Provider(r, a, d)
    \/ \E r \in Runs, d1 \in CallOutcomes, d2 \in CallOutcomes : PostAi(r, d1, d2)
    \/ \E r \in Runs, c \in CreditOutcomes : Complete(r, c)

(***************************************************************************)
(* 4. Debug rounds of one task that run together                           *)
(*    (asyncio.create_task(process_debug(...)) per request, with a gpt     *)
(*    model and no images; the steps that read or write shared rows)       *)
(***************************************************************************)

TheTask == CHOOSE r \in Runs : TRUE

\* The record a completed Generate leaves (task_processor.py: initial_record,
\* then the update with the provider's conversation).
GeneratedRecord ==
    [NoRecord EXCEPT !.exists = TRUE, !.ocr_texts = TRUE, !.ai_analysis = TRUE,
                     !.conversation = ConversationOf("generate", <<>>, 0),
                     !.current_conversation = ConversationOf("generate", <<>>, 0)]

RoundsInit ==
    /\ run = [r \in Runs |-> RunIdle]
    /\ published = [r \in Runs |-> <<>>]
    /\ sockets = NoSockets
    /\ request = NoRequests
    /\ tasks \in {[r \in Runs |-> NoRecord], [r \in Runs |-> GeneratedRecord]}
    /\ remaining_credits \in 1..MaxCredits
    /\ initial_credits = remaining_credits
    /\ NoRounds

\* The request handler: check_user_credits, then asyncio.create_task.
\* Rounds are numbered in the order of their requests.
RoundLaunch(k) ==
    /\ rounds[k].pc = "idle"
    /\ \A j \in Rounds : j < k => rounds[j].pc # "idle"
    /\ remaining_credits > 0
    /\ rounds' = [rounds EXCEPT ![k].pc = "launched"]
    /\ UNCHANGED <<run, published, sockets, request, tasks, remaining_credits, initial_credits, retry, authVars>>

\* debug_with_openai up to the POST: get_record_by_task_id, then
\* conversation = existing_conversation.copy() plus the user turn.
RoundRead(k, readOut) ==
    /\ rounds[k].pc = "launched"
    /\ rounds' = IF readOut = "ok" /\ tasks[TheTask].exists
                 THEN [rounds EXCEPT ![k].pc = "posted",
                          ![k].conversation =
                              ConversationOf("debug", tasks[TheTask].current_conversation, k)]
                 ELSE [rounds EXCEPT ![k].pc = "done"]
    /\ UNCHANGED <<run, published, sockets, request, tasks, remaining_credits, initial_credits, retry, authVars>>

\* The provider's response arrives: success, or 'ai error' and return.
RoundAnswer(k, aiOut) ==
    /\ rounds[k].pc = "posted"
    /\ rounds' = [rounds EXCEPT ![k].pc = IF aiOut = "ok" THEN "answered" ELSE "done"]
    /\ UNCHANGED <<run, published, sockets, request, tasks, remaining_credits, initial_credits, retry, authVars>>

\* process_debug: update_record_status(record["task_id"],
\* {"current_conversation": ai_result["conversation"]}).
RoundStore(k, dbOut) ==
    /\ rounds[k].pc = "answered"
    /\ tasks' = [tasks EXCEPT ![TheTask] =
                    Updated(@, dbOut, DebugTaskUpdate(rounds[k].conversation))]
    /\ rounds' = [rounds EXCEPT ![k].pc = "stored",
                               ![k].wrote = dbOut = "ok" /\ tasks[TheTask].exists]
    /\ UNCHANGED <<run, published, sockets, request, remaining_credits, initial_credits, retry, authVars>>

\* process_debug: 'completed', then update_user_credits(user_id, -1), whose
\* read and write are two blocking calls with no await between them.
RoundCredits(k, creditOut) ==
    /\ rounds[k].pc = "stored"
    /\ remaining_credits' = IF creditOut = "ok" THEN NewCredits(remaining_credits, -1)
                            ELSE remaining_credits
    /\ rounds' = [rounds EXCEPT ![k].pc = "done", ![k].completed = TRUE,
                               ![k].decremented = creditOut = "ok",
                               ![k].current_credits =
                                   IF creditOut = "read_failed" THEN 0
                                   ELSE remaining_credits]
    /\ UNCHANGED <<run, published, sockets, request, tasks, initial_credits, retry, authVars>>

RoundsNext ==
    \/ \E k \in Rounds : RoundLaunch(k)
    \/ \E k \in Rounds, d \in CallOutcomes : RoundRead(k, d)
    \/ \E k \in Rounds, a \in AiOutcomes : RoundAnswer(k, a)
    \/ \E k \in Rounds, d \in CallOutcomes : RoundStore(k, d)
    \/ \E k \in Rounds, c \in CreditOutcomes : RoundCredits(k, c)

(***************************************************************************)
(* 5. Listeners: clients of the WebSocket endpoint /ws/{task_id}           *)
(***************************************************************************)

\* websocket_endpoint: await manager.connect(websocket, task_id)
Connect(s, r) ==
    /\ sockets[s].state = "new"
    /\ \A e \in Earlier(s) : sockets[e].state # "new"
    /\ sockets' = [sockets EXCEPT ![s] = [state |-> "open", task |-> r, last |-> None]]
    /\ UNCHANGED <<run, published, tasks, remaining_credits, initial_credits, rounds,
                   retry, authVars, request>>

\* websocket_endpoint: WebSocketDisconnect, await manager.disconnect(websocket, task_id)
Disconnect(s) ==
    /\ sockets[s].state = "open"
    /\ sockets' = [sockets EXCEPT ![s].state = "closed"]
    /\ UNCHANGED <<run, published, tasks, remaining_credits, initial_credits, rounds,
                   retry, authVars, request>>

\* asyncio.create_task(process_...(...)) of one request
LaunchOnce(r, kind, model, n) == run[r].pc = "idle" /\ Launch(r, kind, model, n)

\* The steps the event loop gives to a launched run.
RunStep ==
    \/ \E r \in Runs : Start(r)
    \/ \E r \in Runs, i \in 1..MaxImages : UploadBegin(r, i)
    \/ \E r \in Runs, i \in 1..MaxImages, ok \in BOOLEAN : UploadEnd(r, i, ok)
    \/ \E r \in Runs : GenerateNoUploads(r)
    \/ \E r \in Runs, o \in OcrOutcomes, d \in DbOutcomes : GenerateOcrAndSave(r, o, d)
    \/ \E r \in Runs, d \in DbOutcomes : SaveRecord(r, d)
    \/ \E r \in Runs, o \in OcrOutcomes, d \in CallOutcomes : Ocr(r, o, d)
    \/ \E r \in Runs, a \in AiOutcomes, d \in CallOutcomes : Provider(r, a, d)
    \/ \E r \in Runs, d1 \in CallOutcomes, d2 \in CallOutcomes : PostAi(r, d1, d2)
    \/ \E r \in Runs, c \in CreditOutcomes : Complete(r, c)

ListenersNext ==
    \/ \E r \in Runs, k \in Kinds, m \in Models, n \in 0..MaxImages :
          LaunchOnce(r, k, m, n)
    \/ RunStep
    \/ \E s \in Sinks, r \in Runs : Connect(s, r)
    \/ \E s \in Sinks : Disconnect(s)

(***************************************************************************)
(* 6. The request boundary: validate_access_token (utils/auth.py) and      *)
(*    TaskController.generate (controllers/task_controller.py)             *)
(***************************************************************************)

\* The Authorization headers considered: none, the empty string, and a
\* scheme followed by tokens separated by commas ("Bearer acc,ref").
Authorizations ==
    {NoAuthorization, [present |-> TRUE, scheme |-> "", parts |-> <<>>]} \cup
    [present : {TRUE}, scheme : {"Bearer ", "Basic "},
     parts : {<<"acc">>, <<"acc", "ref">>, <<"acc", "">>, <<"acc", "ref", "x">>}]

\* not authorization
Missing(authorization) ==
    ~authorization.present \/ (authorization.scheme = "" /\ authorization.parts = <<>>)

\* authorization.startswith("Bearer ")
StartsWithBearer(authorization) == authorization.scheme = "Bearer "

\* [t.strip() for t in raw_tokens.split(',') if t is not None]
tokens(authorization) == authorization.parts

\* supabase.auth.get_user(access_token) returns the user or raises.
AccessOutcomes == {"ok", "raises"}

\* What silent_refresh_token returns: (None, None) or the (user, session) of
\* a refresh.
RefreshResults == {NoneResult} \cup {NewResult(c) : c \in Callers}

\* session_data of a refresh: the new access and refresh credential.
session_data(session) ==
    [access_token |-> <<"access", session>>, refresh_token |-> <<"refresh", session>>]

\* response.headers["New-Access-Token"], response.headers["New-Refresh-Token"]
Surfaced(session) ==
    [New_Access_Token |-> session_data(session).access_token,
     New_Refresh_Token |-> session_data(session).refresh_token]

\* The status_code of the HTTPException validate_access_token raises.
StatusOf(reason) == IF reason = "refresh_failed" THEN 401 ELSE 500

\* validate_access_token(authorization, response): what it raises or returns
\* and the headers it sets on the response.
Validation(authorization, access, refreshed) ==
    LET Raise(reason) == [raised |-> TRUE, status_code |-> StatusOf(reason),
                          token_refreshed |-> FALSE, headers |-> NoHeaders]
    IN  IF Missing(authorization) THEN Raise("missing")
        ELSE IF ~StartsWithBearer(authorization) THEN Raise("format")
        ELSE IF Len(tokens(authorization)) # 2 THEN Raise("token_format")
        ELSE IF access = "ok"
             THEN [raised |-> FALSE, status_code |-> 0, token_refreshed |-> FALSE,
                   headers |-> NoHeaders]
        ELSE IF refreshed.user = None THEN Raise("refresh_failed")
        ELSE [raised |-> FALSE, status_code |-> 0, token_refreshed |-> TRUE,
              headers |-> Surfaced(refreshed.session)]

\* TaskController.generate up to BaseController.authenticate_user: an
\* HTTPException goes to the client as it is.
Authenticate(q, authorization, access, refreshed) ==
    /\ request[q].pc = "idle"
    /\ access = "ok" => refreshed = NoneResult
    /\ LET v == Validation(authorization, access, refreshed)
           frame == [request[q] EXCEPT !.authorization = authorization,
                                       !.access = access, !.refreshed = refreshed]
       IN  request' = [request EXCEPT ![q] =
               IF v.raised
               THEN [frame EXCEPT !.pc = "responded", !.status_code = v.status_code]
               ELSE [frame EXCEPT !.pc = "authenticated", !.headers = v.headers,
                                  !.token_refreshed = v.token_refreshed]]
    /\ UNCHANGED <<run, published, tasks, remaining_credits, initial_credits, rounds,
                   sockets, retry, authVars>>

\* The rest of TaskController.generate: the users row, check_user_credits,
\* validate_files, asyncio.create_task(process_generate(...)), the response.
EndpointOutcomes == {"ok", "no_user_row", "credits_failed", "no_credits", "too_many_files"}

EndpointStatus(out) ==
    CASE out = "ok" -> 200
      [] out = "no_user_row" -> 500
      [] out = "credits_failed" -> 404
      [] out = "no_credits" -> 403
      [] out = "too_many_files" -> 400

\* The headers of the response the client receives: those set on the
\* injected Response when the endpoint returns, those of the HTTPException
\* (none) when it raises.
ClientHeaders(out, headers) == IF out = "ok" THEN headers ELSE NoHeaders

Respond(q, out) ==
    /\ request[q].pc = "authenticated"
    /\ request' = [request EXCEPT ![q].pc = "responded",
                                  ![q].status_code = EndpointStatus(out),
                                  ![q].launched = (out = "ok"),
                                  ![q].client_headers =
                                      ClientHeaders(out, request[q].headers)]
    /\ UNCHANGED <<run, published, tasks, remaining_credits, initial_credits, rounds,
                   sockets, retry, authVars>>

RequestsNext ==
    \/ \E q \in Requests, a \in Authorizations, g \in AccessOutcomes,
          f \in RefreshResults : Authenticate(q, a, g, f)
    \/ \E q \in Requests, o \in EndpointOutcomes : Respond(q, o)

(***************************************************************************)
(* Specifications                                                          *)
(***************************************************************************)

PipeIdle ==
    /\ run = [r \in Runs |-> RunIdle]
    /\ published = [r \in Runs |-> <<>>]
    /\ sockets = NoSockets
    /\ request = NoRequests
    /\ tasks = [r \in Runs |-> NoRecord]
    /\ remaining_credits = 0
    /\ initial_credits = 0
    /\ NoRounds

InitRetry == RetryInit /\ AuthIdle /\ PipeIdle
SpecRetry == InitRetry /\ [][RetryNext]_vars

InitAuth == retry = RetryIdle /\ AuthIdle /\ PipeIdle
SpecAuth == InitAuth /\ [][AuthNext]_vars

InitRounds == retry = RetryIdle /\ AuthIdle /\ RoundsInit
SpecRounds == InitRounds /\ [][RoundsNext]_vars

Init == retry = RetryIdle /\ AuthIdle /\ PipeInit
Next == PipeNext
Spec == Init /\ [][Next]_vars

InitRequests == retry = RetryIdle /\ AuthIdle /\ PipeIdle
SpecRequests == InitRequests /\ [][RequestsNext]_vars

\* A launched run is a task of the event loop: it is given its next step.
SpecListeners == Init /\ [][ListenersNext]_vars /\ WF_vars(RunStep)

(***************************************************************************)
(* Properties of the resilience wrapper (checked under SpecRetry)         *)
(***************************************************************************)

AllRetryable(calls) == \A i \in 1..Len(calls) : calls[i] # Returned /\ is_retryable(calls[i])

\* C7. With max_retries >= 1, an operation that fails with a retryable error
\* k < max_retries times and then succeeds makes the wrapper return the value
\* of the successful invocation after exactly k+1 invocations: the wrapper
\* never gives up while only retryable errors were seen and fewer than
\* max_retries invocations were made, and it stops at the first success.
C7_ReturnsAfterTransientFailures ==
    retry.max_retries >= 1 =>
        /\ (retry.pc = "done" /\ AllRetryable(retry.calls))
              => Len(retry.calls) >= retry.max_retries
        /\ \A i \in 1..Len(retry.calls) :
              retry.calls[i] = Returned =>
                  /\ i = Len(retry.calls)
                  /\ i <= retry.max_retries
                  /\ retry.pc = "done"
                  /\ retry.outcome = "returned"
                  /\ retry.result = i
                  /\ Len(retry.sleeps) = i - 1

C7_Witness ==
    /\ retry.pc = "done"
    /\ retry.outcome = "returned"
    /\ Len(retry.calls) = 3
    /\ AllRetryable(SubSeq(retry.calls, 1, 2))

\* C8. An error with duplicate, permission or not-found semantics is raised
\* to the caller by the invocation that met it: no sleep and no further
\* invocation follow it.
C8_FatalErrorNotRetried ==
    \A i \in 1..Len(retry.calls) :
        (retry.calls[i] # Returned /\ HasFatalSemantics(retry.calls[i])) =>
            /\ i = Len(retry.calls)
            /\ retry.pc = "done"
            /\ retry.outcome = "raised"
            /\ retry.raised = retry.calls[i]
            /\ Len(retry.sleeps) = i - 1

\* C9. With max_retries >= 1, an operation that always fails with a retryable
\* error is invoked exactly max_retries times, the wait after failed attempt a
\* (from 0) is base_delay * 2^a, there are max_retries - 1 waits, and the
\* error raised is the one of the last attempt.
C9_ExhaustedRetries ==
    (retry.max_retries >= 1 /\ AllRetryable(retry.calls)) =>
        /\ Len(retry.calls) <= retry.max_retries
        /\ \A a \in 0..(Len(retry.sleeps) - 1) :
              retry.sleeps[a + 1] = retry.base_delay * Pow2(a)
        /\ retry.pc = "done" =>
              /\ Len(retry.calls) = retry.max_retries
              /\ Len(retry.sleeps) = retry.max_retries - 1
              /\ retry.outcome = "raised"
              /\ retry.raised = Last(retry.calls)

C9_Witness ==
    /\ retry.pc = "done"
    /\ retry.max_retries = 3
    /\ AllRetryable(retry.calls)
    /\ Len(retry.sleeps) = 2
    /\ retry.calls[2] # retry.calls[3]

(***************************************************************************)
(* Properties of the refresh coordinator (checked under SpecAuth)         *)
(***************************************************************************)

SameCredential(c1, c2) ==
    /\ caller[c1].pc # "idle" /\ caller[c2].pc # "idle"
    /\ caller[c1].token = caller[c2].token

Distance(a, b) == IF a >= b THEN a - b ELSE b - a

\* C4. Among calls with the same refresh credential that begin within 30 s
\* of each other, refresh_session is invoked at most once and all of them
\* return the same (user, session), whether the refresh succeeds or fails.
C4_OneRefreshPerWindow ==
    \A c1, c2 \in Callers :
        (c1 # c2 /\ SameCredential(c1, c2)
            /\ Distance(caller[c1].start, caller[c2].start) < CacheTTL) =>
            /\ ~(caller[c1].invoked /\ caller[c2].invoked)
            /\ (caller[c1].pc = "done" /\ caller[c2].pc = "done")
                  => caller[c1].result = caller[c2].result

InFlight(token_hash) ==
    {c \in Callers : /\ caller[c].pc = "refreshing"
                     /\ _get_refresh_token_hash(caller[c].token) = token_hash}

\* C5. In every reachable state at most one refresh_session call is in
\* flight for any refresh-credential hash.
C5_OneInFlightPerHash ==
    \A h \in Hashes : Cardinality(InFlight(h)) <= 1

\* A refresh is in flight whose lock entry is already older than the cleanup
\* interval, after an earlier call with the same credential, while a further
\* call has yet to begin.
C5_Witness ==
    \E c \in Callers, b \in Callers, d \in Callers :
        LET h == _get_refresh_token_hash(caller[c].token) IN
        /\ caller[c].pc = "refreshing"
        /\ h \in DOMAIN _refresh_locks
        /\ LockExpired(_refresh_locks[h].timestamp)
        /\ caller[b].pc = "done" /\ caller[b].token = caller[c].token
        /\ caller[d].pc = "idle"

\* C6. A call that begins less than 30 s after a successful refresh of the
\* same credential returns that cached result and does not invoke
\* refresh_session.
C6_FreshResultReused ==
    \A c \in Callers :
        (caller[c].pc # "idle" /\ caller[c].priorOkTime >= 0
            /\ caller[c].start - caller[c].priorOkTime < CacheTTL) =>
            /\ ~caller[c].invoked
            /\ caller[c].result = caller[c].priorOk

(***************************************************************************)
(* Properties of the pipeline engine (checked under Spec)                 *)
(***************************************************************************)

\* 'error' or a status named after a stage and ending in error.
IsErrorStatus(status) ==
    status \in {"error", "storage error", "save error", "ocr error", "ai error",
                "credits error"}

\* One step of the recogniser of
\*   started uploading* 'ocr processing' 'ocr completed' 'ai processing'
\*   'ai completed' completed
\* and of its prefixes ended by one error status.
PatternStep(at, status) ==
    CASE at \in {"reject", "completed", "failed"} -> "reject"
      [] at = "begin" /\ status = "started" -> "started"
      [] at # "begin" /\ IsErrorStatus(status) -> "failed"
      [] at = "started" /\ status = "uploading" -> "started"
      [] at = "started" /\ status = "ocr processing" -> "ocr processing"
      [] at = "ocr processing" /\ status = "ocr completed" -> "ocr completed"
      [] at = "ocr completed" /\ status = "ai processing" -> "ai processing"
      [] at = "ai processing" /\ status = "ai completed" -> "ai completed"
      [] at = "ai completed" /\ status = "completed" -> "completed"
      [] OTHER -> "reject"

RECURSIVE PatternAfter(_, _, _)
PatternAfter(statuses, i, at) ==
    IF i > Len(statuses) THEN at
    ELSE PatternAfter(statuses, i + 1, PatternStep(at, statuses[i]))

\* C1. The statuses a run has published form a prefix of [started,
\* uploading*, ocr processing, ocr completed, ai processing, ai completed,
\* completed], or such a prefix ended by one error status, and nothing
\* follows an error status or 'completed'.
C1_StatusSequence ==
    \A r \in Runs : PatternAfter(published[r], 1, "begin") # "reject"

IsTerminalStatus(status) == status = "completed" \/ IsErrorStatus(status)

\* C2. A run in which a step raised has published 'error', and a run that
\* is over has published a terminal status.
C2_ExceptionPublished ==
    \A r \in Runs :
        run[r].pc = "done" =>
            /\ run[r].raised => "error" \in Range(published[r])
            /\ \E i \in 1..Len(published[r]) : IsTerminalStatus(published[r][i])

\* The error statuses that end a run ('storage error' and 'credits error'
\* report a failure the run goes on after).
IsTerminalError(status) ==
    status \in {"error", "save error", "ocr error", "ai error"}

\* C3. A run never publishes 'error' after 'completed', and never publishes
\* two terminal error statuses.
C3_OneTerminalEvent ==
    \A r \in Runs :
        LET p == published[r] IN
        /\ \A i \in 1..Len(p), j \in 1..Len(p) :
              (i < j /\ p[i] = "completed") => p[j] # "error"
        /\ Cardinality({i \in 1..Len(p) : IsTerminalError(p[i])}) <= 1

\* C10. A transient failure of the initial record insert that occurred
\* fewer than max_retries times has not ended the run with 'save error'.
C10_TransientPersistenceRetried ==
    \A r \in Runs :
        (run[r].save = "transient" /\ run[r].saveCalls < DefaultMaxRetries) =>
            "save error" \notin Range(published[r])

Completed(r) == run[r].pc = "done" /\ "completed" \in Range(published[r])

\* C11. A Debug round that completed has left the task's stored conversation
\* exactly two turns longer than it found it: the round's user turn, then
\* the assistant's reply.
C11_DebugAddsTwoTurns ==
    \A r \in Runs :
        (run[r].kind = "debug" /\ Completed(r)) =>
            tasks[r].current_conversation =
                run[r].storedBefore \o <<Turn("user", run[r].launches),
                                         Turn("assistant", run[r].launches)>>

(***************************************************************************)
(* Properties of rounds that run together (checked under SpecRounds)       *)
(***************************************************************************)

\* C12. No turn once stored is lost: the user turn of every round whose
\* write of the conversation succeeded is in the stored conversation, and
\* the turns Generate stored are its beginning.
C12_AppendOnly ==
    LET stored == tasks[TheTask].current_conversation IN
    /\ \A k \in Rounds : rounds[k].wrote => Turn("user", k) \in Range(stored)
    /\ tasks[TheTask].exists =>
          /\ Len(stored) >= Len(tasks[TheTask].conversation)
          /\ SubSeq(stored, 1, Len(tasks[TheTask].conversation)) = tasks[TheTask].conversation

\* C13. remaining_credits is never negative, whatever update_user_credits
\* calls were made and however the runs making them interleave.
C13_CreditFloor == remaining_credits >= 0

\* A decrement that met a balance of 0 and wrote 0.
C13_Witness ==
    \E k \in Rounds :
        /\ rounds[k].decremented
        /\ rounds[k].current_credits = 0
        /\ remaining_credits = 0

Max0(n) == IF n < 0 THEN 0 ELSE n

Roles(conversation) == [i \in 1..Len(conversation) |-> conversation[i][1]]

\* C15. A Generate run with two images, both stored, model gpt-4o, OCR and
\* the provider succeeding, has published exactly started, uploading,
\* uploading, ocr completed, ai completed, completed, and left a record with
\* two image URLs and the conversation system, user, assistant.
C15_GenerateScenario ==
    \A r \in Runs :
        ( /\ run[r].kind = "generate" /\ run[r].model = <<"gpt", "-4o">>
          /\ run[r].uploads = <<"ok", "ok">>
          /\ run[r].ocr = "ok" /\ run[r].ai = "ok"
          /\ run[r].pc = "done" ) =>
            /\ published[r] = <<"started", "uploading", "uploading", "ocr completed",
                                "ai completed", "completed">>
            /\ Len(tasks[r].image_urls) = 2
            /\ Roles(tasks[r].conversation) = <<"system", "user", "assistant">>

PartialUpload(r) ==
    /\ \E i \in 1..run[r].nImages : run[r].uploads[i] = "ok"
    /\ \E i \in 1..run[r].nImages : run[r].uploads[i] = "failed"

AllUploadsFailed(r) ==
    /\ run[r].nImages >= 1
    /\ \A i \in 1..run[r].nImages : run[r].uploads[i] = "failed"

\* C17. A run all of whose uploads failed still makes the insert of the
\* record, with no image URL, and does not end at the upload stage.
C17_AllUploadsFailedContinues ==
    \A r \in Runs :
        (AllUploadsFailed(r) /\ run[r].pc # "upload") =>
            /\ run[r].saveCalls = 1
            /\ run[r].save = "ok" => run[r].ocr # None \/ run[r].pc = "ocr"

\* C18. A Generate or Debug run whose OCR call reported failure has
\* published a terminal error status and stopped: no provider call, no
\* 'completed', the credit as it was.
C18_OcrFailureTerminal ==
    \A r \in Runs :
        (run[r].kind \in {"generate", "debug"} /\ run[r].ocr = "fail") =>
            /\ run[r].pc = "done"
            /\ \E i \in 1..Len(published[r]) : IsTerminalError(published[r][i])
            /\ run[r].providerCalls = 0
            /\ "completed" \notin Range(published[r])
            /\ remaining_credits = run[r].creditsBefore

\* The provider call of the run failed: the provider function returned a
\* failure, or the call itself raised.
ProviderCallFailed(r) ==
    \/ run[r].ai = "fail"
    \/ /\ run[r].raised
       /\ "ocr completed" \in Range(published[r])
       /\ ProviderOf(run[r].kind, run[r].model) # "none"
       /\ ~CallMatchesSignature(run[r].kind, ProviderOf(run[r].kind, run[r].model))

\* C19. A run whose provider call failed called the provider once, has
\* published 'ai error' and stopped: no 'completed', the stored conversation
\* and the credit as they were.
C19_ProviderFailureTerminal ==
    \A r \in Runs :
        (ProviderCallFailed(r) /\ run[r].pc = "done") =>
            /\ run[r].providerCalls <= 1
            /\ "ai error" \in Range(published[r])
            /\ "completed" \notin Range(published[r])
            /\ tasks[r].current_conversation = run[r].storedBefore
            /\ remaining_credits = run[r].creditsBefore

\* C20. A Generate or Debug run whose credit decrement failed has published
\* 'credits error' after 'completed', and the conversation it stored is
\* still stored.
C20_CreditsFailureReported ==
    \A r \in Runs :
        ( /\ run[r].kind \in {"generate", "debug"}
          /\ run[r].credits \in {"read_failed", "write_failed"} ) =>
            LET p == published[r] IN
            /\ \E i, j \in 1..Len(p) :
                  i < j /\ p[i] = "completed" /\ p[j] = "credits error"
            /\ tasks[r].current_conversation \in {run[r].conversation, run[r].storedBefore}

\* C21. A Generate or Debug run whose decrement succeeded and left the
\* user's remaining credit at 0 has published 'no credits' after 'completed'.
C21_NoCreditsAdvisory ==
    \A r \in Runs :
        ( /\ run[r].kind \in {"generate", "debug"}
          /\ run[r].pc = "done"
          /\ run[r].credits = "ok"
          /\ remaining_credits = 0 ) =>
            LET p == published[r] IN
            \E i, j \in 1..Len(p) :
                i < j /\ p[i] = "completed" /\ p[j] = "no credits"

\* C22. The credit is decremented only after a successful reasoning stage:
\* while a launched run has not published 'completed' the user's remaining
\* credit is what it was at the launch, and a run that changed it had a
\* successful reasoning stage and published no 'ai error'.
C22_DecrementOnlyAfterSuccess ==
    \A r \in Runs :
        run[r].pc # "idle" =>
            /\ "completed" \notin Range(published[r]) =>
                  remaining_credits = run[r].creditsBefore
            /\ remaining_credits # run[r].creditsBefore =>
                  /\ run[r].ai = "ok"
                  /\ "ai error" \notin Range(published[r])

\* A second run on a user who already paid for one ends with an error before
\* 'completed', and the credit is what it was at its launch.
C22_Witness ==
    \E r \in Runs :
        /\ run[r].pc = "done"
        /\ run[r].launches = 2
        /\ "completed" \notin Range(published[r])
        /\ \E s \in Range(published[r]) : IsErrorStatus(s)
        /\ remaining_credits = run[r].creditsBefore
        /\ remaining_credits < initial_credits

(***************************************************************************)
(* Properties of a run and its listeners (checked under SpecListeners)     *)
(***************************************************************************)

RunOver(r) == run[r].pc = "done"

\* What a run that completed and whose decrement succeeded has left behind.
ResultsKept(r) ==
    /\ tasks[r].exists
    /\ remaining_credits = Max0(run[r].creditsBefore - 1)

\* C23. A run does not depend on listeners: whatever connections are open
\* under its task id, and whenever they are opened or closed, a launched run
\* goes on to its end, and a run that completed has its record stored and
\* the credit decremented.
C23_RunsWithoutListeners ==
    /\ \A r \in Runs : (run[r].pc \notin {"idle", "done"}) ~> RunOver(r)
    /\ [](\A r \in Runs : (Completed(r) /\ run[r].credits = "ok") => ResultsKept(r))

\* A run completed, stored its conversation and took the credit, while its
\* only listener had closed the connection midway and nobody received
\* 'completed'.
C23_Witness ==
    \E r \in Runs :
        /\ Completed(r) /\ run[r].credits = "ok"
        /\ tasks[r].current_conversation = run[r].conversation
        /\ remaining_credits = run[r].creditsBefore - 1
        /\ \E s \in Sinks :
              /\ sockets[s].state = "closed" /\ sockets[s].task = r
              /\ sockets[s].last \notin {None, "completed", "no credits"}
        /\ \A s \in Sinks :
              sockets[s].state # "open" /\ sockets[s].last \notin {"completed", "no credits"}

(***************************************************************************)
(* Properties of the pipeline engine, continued (checked under Spec)       *)
(***************************************************************************)

\* C24. When a Generate run has published 'completed', the stored record of
\* the task holds the extracted texts, the analysis and the whole
\* conversation of that run.
C24_RecordBeforeCompleted ==
    \A r \in Runs :
        (run[r].kind = "generate" /\ "completed" \in Range(published[r])) =>
            /\ tasks[r].ocr_texts
            /\ tasks[r].ai_analysis
            /\ tasks[r].conversation = run[r].conversation
            /\ tasks[r].current_conversation = run[r].conversation

(***************************************************************************)
(* Properties of the request boundary (checked under SpecRequests)         *)
(***************************************************************************)

\* C25. When validate_access_token returned with token_refreshed = true, the
\* response the client receives carries the new access credential and the
\* new refresh credential of the refresh (New-Access-Token, New-Refresh-Token).
C25_NewCredentialsSurfaced ==
    \A q \in Requests :
        (request[q].pc = "responded" /\ request[q].token_refreshed) =>
            /\ request[q].client_headers.New_Access_Token =
                  session_data(request[q].refreshed.session).access_token
            /\ request[q].client_headers.New_Refresh_Token =
                  session_data(request[q].refreshed.session).refresh_token

\* C26. Every credential error of validate_access_token (no Authorization
\* header, a header not starting with 'Bearer ', not exactly two tokens, a
\* rejected access credential whose refresh fails) reaches the client as
\* HTTP 401, and no run is launched for the request.
C26_CredentialErrorsAre401 ==
    \A q \in Requests :
        ( /\ request[q].pc = "responded"
          /\ Validation(request[q].authorization, request[q].access,
                        request[q].refreshed).raised ) =>
            /\ request[q].status_code = 401
            /\ ~request[q].launched

(***************************************************************************)
(* Properties of the pipeline engine, continued (checked under Spec)       *)
(***************************************************************************)

\* C27. A Generate run whose model name contains 'claude' and not 'gpt', and
\* that got past extraction, has called the Claude backend exactly once; and
\* unless that call failed, the run has stored the conversation and
\* published 'completed'.
C27_ClaudeSelectedOnce ==
    \A r \in Runs :
        ( /\ IsGenerate(run[r].kind)
          /\ InModel("claude", run[r].model) /\ ~InModel("gpt", run[r].model)
          /\ run[r].pc = "done"
          /\ "ocr completed" \in Range(published[r]) ) =>
            /\ ProviderOf(run[r].kind, run[r].model) = "claude"
            /\ run[r].providerCalls = 1
            /\ "ai error" \notin Range(published[r]) =>
                  /\ "completed" \in Range(published[r])
                  /\ tasks[r].current_conversation = run[r].conversation

(***************************************************************************)
(* Properties of the refresh coordinator, continued (checked under         *)
(* SpecAuth)                                                               *)
(***************************************************************************)

\* C28. The cache is checked while the lock of the credential's hash is
\* held: a call that returned a cached entry without calling
\* refresh_session had acquired the lock before it looked at the cache.
C28_CacheCheckedUnderLock ==
    \A c \in Callers :
        ( /\ caller[c].pc = "done"
          /\ ~caller[c].invoked
          /\ caller[c].result # NoneResult ) =>
            caller[c].lock # 0

C30_CleanupByAge ==
    [][(\E c \in Callers : caller[c].pc = "idle" /\ caller'[c].pc # "idle") =>
          /\ \A h \in DOMAIN _refresh_locks' :
                now - _refresh_locks'[h].timestamp <= LockCleanupInterval
          /\ \A h \in DOMAIN _cached_tokens' :
                now - _cached_tokens'[h].time <= LockCleanupInterval
          /\ \A h \in DOMAIN _cached_tokens \ DOMAIN _cached_tokens' :
                /\ h \in DOMAIN _refresh_locks
                /\ h \notin DOMAIN _refresh_locks' \/ _refresh_locks'[h] # _refresh_locks[h]
                /\ now - _cached_tokens[h].time > LockCleanupInterval]_vars

\* C31. An image whose upload failed is dropped for the rest of the run: the
\* OCR stage is given the surviving images only, and file_names and
\* total_images of the record describe the survivors, as image_urls does.
C31_FailedUploadDropped ==
    \A r \in Runs :
        ( /\ IsGenerate(run[r].kind)
          /\ run[r].save = "ok" ) =>
            /\ tasks[r].image_urls = storage_results(r)
            /\ tasks[r].file_names = storage_results(r)
            /\ tasks[r].total_images = Len(tasks[r].image_urls)
            /\ run[r].ocr # None => ocr_images(r) = storage_results(r)

\* C32. In the multimodal Generate and Debug operations extraction is
\* skipped: the OCR stage is not invoked and cannot end the run, while
\* 'ocr processing' and then 'ocr completed' are published before the
\* reasoning call.
C32_MultimodalSkipsOcr ==
    \A r \in Runs :
        run[r].kind \in {"generate_multimodal", "multimodal_debug"} =>
            /\ run[r].ocr = None
            /\ "ocr error" \notin Range(published[r])
            /\ run[r].save = "ok" =>
                  \/ run[r].pc = "ocr"
                  \/ LET p == published[r] IN
                     \E i, j \in 1..Len(p) :
                        i < j /\ p[i] = "ocr processing" /\ p[j] = "ocr completed"

\* C33. In process_generate the update that stores the OCR texts is joined
\* before the reasoning stage is over: a run that published 'ocr completed'
\* and has gone past the reasoning stage (its 'ai completed' or 'ai error'),
\* or has ended, also by an exception of the reasoning call, has the OCR
\* texts in the stored record.
C33_OcrTextsJoined ==
    \A r \in Runs :
        ( /\ run[r].kind = "generate"
          /\ "ocr completed" \in Range(published[r])
          /\ run[r].pc \in {"credits", "done"} ) =>
            tasks[r].ocr_texts


(***************************************************************************)
(* The problem/solution split of the reasoning output                     *)
(* (services/task_processor.py, after 'ai completed')                     *)
(***************************************************************************)

\* Longest reasoning output examined, in characters.
MaxTextLen == 8

\* The characters of a reasoning output: the two bracket characters of the
\* markers, the dash of a '---' rule (also the ordinary character of the
\* examples) and white space.
Chars == {"[", "]", "-", " "}

Texts == UNION {[1..n -> Chars] : n \in 0..MaxTextLen}

OpenMarker == <<"[", "[", "[">>
CloseMarker == <<"]", "]", "]">>
Rule == <<"-", "-", "-">>

\* s[a:b] with 0 <= a and 0 <= b: the characters at the 0-based positions
\* a .. b-1, none when b <= a.
Slice(s, a, b) == SubSeq(s, a + 1, IF b < Len(s) THEN b ELSE Len(s))

\* s.find(sub): the lowest 0-based index where sub occurs, -1 when nowhere.
find(s, sub) ==
    LET hits == {i \in 0..(Len(s) - Len(sub)) : Slice(s, i, i + Len(sub)) = sub}
    IN  IF hits = {} THEN -1
        ELSE CHOOSE i \in hits : \A j \in hits : i <= j

strip_none(s) == s

\* s.strip(): leading and trailing white space removed.
strip(s) ==
    LET inked == {i \in 1..Len(s) : s[i] # " "}
    IN  IF inked = {} THEN <<>>
        ELSE SubSeq(s, CHOOSE i \in inked : \A j \in inked : i <= j,
                       CHOOSE i \in inked : \A j \in inked : j <= i)

\* s.replace('---', ''): the occurrences are found from the left and do not
\* overlap.
RECURSIVE replace_rule(_)
replace_rule(s) ==
    IF Len(s) < 3 THEN s
    ELSE IF SubSeq(s, 1, 3) = Rule THEN replace_rule(SubSeq(s, 4, Len(s)))
    ELSE <<Head(s)>> \o replace_rule(Tail(s))

\* task_processor.py:150-159 (the same lines at 332-343, 530-541, 702-713).
extract_problem_solution(analysis_text) ==
    LET problem_start == find(analysis_text, OpenMarker)
        problem_end == find(analysis_text, CloseMarker)
    IN  IF problem_start # -1 /\ problem_end # -1
        THEN [problem |-> strip(Slice(analysis_text, problem_start + 3, problem_end)),
              solution |-> strip(Slice(analysis_text, problem_end + 3,
                                       Len(analysis_text)))]
        ELSE [problem |-> <<>>,
              solution |-> replace_rule(strip(analysis_text))]

\* A run that has published 'ai completed' holds the provider's analysis.
SplitInit ==
    /\ run \in [Runs -> {[RunIdle EXCEPT !.pc = "split", !.analysis_text = t] :
                            t \in Texts}]
    /\ published = [r \in Runs |-> <<>>]
    /\ sockets = NoSockets
    /\ request = NoRequests
    /\ tasks = [r \in Runs |-> NoRecord]
    /\ remaining_credits = 0
    /\ initial_credits = 0
    /\ NoRounds

Split(r) ==
    /\ run[r].pc = "split"
    /\ run' = [run EXCEPT ![r].pc = "split done",
                          ![r].problem = extract_problem_solution(run[r].analysis_text).problem,
                          ![r].solution = extract_problem_solution(run[r].analysis_text).solution]
    /\ UNCHANGED <<retry, authVars, published, tasks, remaining_credits, rounds,
                   initial_credits, sockets, request>>

SplitNext == \E r \in Runs : Split(r)

InitSplit == retry = RetryIdle /\ AuthIdle /\ SplitInit
SpecSplit == InitSplit /\ [][SplitNext]_vars


(***************************************************************************)
(* Properties of the problem/solution split (checked under SpecSplit)     *)
(***************************************************************************)

Occurs(s, sub, i) == i + Len(sub) <= Len(s) /\ SubSeq(s, i + 1, i + Len(sub)) = sub

\* sub occurs in s at the 0-based index i and at no lower index.
FirstAt(s, sub, i) ==
    /\ Occurs(s, sub, i)
    /\ \A j \in 0..(i - 1) : ~Occurs(s, sub, j)

Contains(s, sub) == \E i \in 0..Len(s) : Occurs(s, sub, i)

Blank(n) == [i \in 1..n |-> " "]

\* t is s without the white space at its two ends.
IsTrimOf(t, s) ==
    /\ t # <<>> => Head(t) # " " /\ Last(t) # " "
    /\ \E a, b \in 0..Len(s) : s = Blank(a) \o t \o Blank(b)

NotDash(c) == c # "-"

\* t is s with the '---' rules taken out: no rule is left, every other
\* character stays in place and the dashes go three at a time.
IsUnruledOf(t, s) ==
    /\ ~Contains(t, Rule)
    /\ SelectSeq(t, NotDash) = SelectSeq(s, NotDash)
    /\ Len(t) <= Len(s)
    /\ (Len(s) - Len(t)) % 3 = 0

SplitDone(r) == run[r].pc = "split done"

C35_NoImagesReachesReasoning ==
    \A r \in Runs :
        ( /\ run[r].kind = "generate"
          /\ run[r].nImages = 0
          /\ run[r].pc = "done"
          /\ run[r].providerCalls = 0 ) =>
              run[r].save # None


\* C36: a run whose model name holds neither 'gpt' nor 'claude' and that
\* came to the reasoning stage has called no provider, has published an
\* error status, has not published 'completed' and has left the credit as it
\* found it.
C36_UnknownModelReported ==
    \A r \in Runs :
        ( /\ run[r].kind \in {"generate", "debug"}
          /\ ProviderOf(run[r].kind, run[r].model) = "none"
          /\ run[r].pc = "done"
          /\ run[r].raised ) =>
              /\ run[r].providerCalls = 0
              /\ "completed" \notin Range(published[r])
              /\ remaining_credits = run[r].creditsBefore
              /\ \E i \in 1..Len(published[r]) : IsErrorStatus(published[r][i])


\* C37: of the rounds requested together, no more publish 'completed' than
\* the user had credits when the first of them was admitted.
C37_CompletedWithinCredit ==
    Cardinality({k \in Rounds : rounds[k].completed}) <= initial_credits


\* C38: within one run no 'ai error' is published after 'ai completed'.
C38_NoAiErrorAfterAiCompleted ==
    \A r \in Runs :
        \A i, j \in 1..Len(published[r]) :
            (published[r][i] = "ai completed" /\ i < j) =>
                published[r][j] # "ai error"


IsDebug(kind) == kind \in {"debug", "multimodal_debug"}

\* The fields of the record of a task that a Debug round leaves alone.
KeptByDebug == DOMAIN NoRecord \ {"current_conversation"}

\* C39: a step of a Debug round changes, in the record of the task, nothing
\* but current_conversation: image_urls, file_names, total_images, ocr_texts,
\* ai_analysis and conversation stay as Generate wrote them.
C39_DebugWritesOnlyCurrentConversation ==
    [][\A r \in Runs :
          (IsDebug(run[r].kind) /\ run[r].pc \notin {"idle", "done"}) =>
              \A f \in KeptByDebug : tasks'[r][f] = tasks[r][f]]_vars

\* A Debug round on a generated task has completed and has stored its
\* conversation as the task's current one.
C39_Witness ==
    \E r \in Runs :
        /\ IsDebug(run[r].kind)
        /\ Completed(r)
        /\ tasks[r].ai_analysis
        /\ tasks[r].conversation # <<>>
        /\ tasks[r].current_conversation = run[r].conversation
        /\ tasks[r].current_conversation # tasks[r].conversation


\* C40: every key of the result cache has a lock entry: the keys of
\* _cached_tokens are among the keys of _refresh_locks.
C40_CachedKeysHaveLocks == DOMAIN _cached_tokens \subseteq DOMAIN _refresh_locks

\* One token's result is cached under its lock entry, while another token,
\* refreshed with success earlier, has lost its lock entry and its cache
\* entry to the sweep.
C40_Witness ==
    \E h, g \in Hashes :
        /\ h \in DOMAIN _cached_tokens
        /\ h \in DOMAIN _refresh_locks
        /\ g # h
        /\ refreshLog[g].lastOkTime >= 0
        /\ g \notin DOMAIN _refresh_locks
        /\ g \notin DOMAIN _cached_tokens

=============================================================================
